---- MODULE Spec2Model ----
(***************************************************************************)
(* Model of the ECR scan-result notifier (handler.go): Handler, app.Handle  *)
(* and the functions they call.  One invocation of Handler is modelled as  *)
(* a sequential process whose position is pc; every call to a collaborator *)
(* (the ECR registry, the Slack service) is one step, and its outcome is a *)
(* nondeterministic input.                                                 *)
(*                                                                         *)
(* Go pointers are modelled as sequences of length 0 (nil) or 1.  Strings  *)
(* that are assembled by the code are sequences of tokens: a repository    *)
(* name is one token and NL is the newline token.                          *)
(***************************************************************************)
EXTENDS Integers, Sequences, FiniteSets, TLC

VARIABLES sess, minimumSeverity, region, pc, list, i, findings, failed,
          filtered, j, calls, response

vars == <<sess, minimumSeverity, region, pc, list, i, findings, failed,
          filtered, j, calls, response>>

(***************************************************************************)
(* Bounds of the model.                                                    *)
(***************************************************************************)
MaxRepos == 2

(***************************************************************************)
(* Program constants.                                                      *)
(***************************************************************************)
MaxResults == 1000
StatusOK == 200
StatusError == 500

Nil == <<>>
Ptr(x) == <<x>>
Deref(p) == p[1]

NL == "\n"
NoErr == ""

AllRepoNames == <<"api", "db", "web", "auth", "cache">>
RepoNames == {AllRepoNames[k] : k \in 1..MaxRepos}

\* Error messages the collaborators can return (err.Error()).
ListErrors == {"AccessDeniedException"}
LookupErrors == {"ScanNotFoundException"}
SlackErrors == {"channel_not_found", "ratelimited"}
SessionErrors == {"SharedConfigLoadError"}

\* Values of MINIMUM_SEVERITY the lambda is configured with.
SeverityNames == {"CRITICAL", "HIGH", "LOW", "NONE"}
Regions == {"eu-west-1"}
Dates == {"2020 Jan 02"}

(***************************************************************************)
(* Severity model (package internal).                                      *)
(***************************************************************************)
SeverityList == <<"CRITICAL", "HIGH", "MEDIUM", "LOW", "INFORMATIONAL", "UNDEFINED">>

Levels == {SeverityList[k] : k \in 1..Len(SeverityList)}

\* The rank of a severity level, 1 for the least severe: SeverityList names
\* the levels from the most severe down (the order in which handler.go:151-155
\* pairs them with the default emojis).
Rank(level) == CHOOSE r \in 1..Len(SeverityList) : SeverityList[Len(SeverityList) + 1 - r] = level

\* The weight table.  The weights are strictly increasing with the rank and
\* each is larger than the sum of all weights below it (powers of a base):
\* the table of powers of two is the smallest with that property.
Weights == [l \in Levels |-> 2 ^ (Rank(l) - 1)]

\* A Go map lookup: the zero value for a key that is not in the map.
SeverityTable(name) == IF name \in DOMAIN Weights THEN Weights[name] ELSE 0

\* CalculateScore with every finding counted: the weight times the count.
RECURSIVE CountWeighted(_, _)
CountWeighted(count, keys) ==
    IF keys = {} THEN 0
    ELSE LET k == CHOOSE x \in keys : TRUE
         IN  count[k] * SeverityTable(k) + CountWeighted(count, keys \ {k})

CalculateScore_CountWeighted(count) == CountWeighted(count, DOMAIN count)

\* The sum of the weights of the levels in keys that have findings.
RECURSIVE SumScore(_, _)
SumScore(count, keys) ==
    IF keys = {} THEN 0
    ELSE LET k == CHOOSE x \in keys : TRUE
         IN  (IF count[k] > 0 THEN SeverityTable(k) ELSE 0) + SumScore(count, keys \ {k})

\* The score of a count mapping: a sum of weights over the levels that have
\* findings.  It does not drop when a count grows, and one finding at a
\* level outranks any counts confined to the levels below it.
CalculateScore(count) == SumScore(count, DOMAIN count)

(***************************************************************************)
(* Responses of the registry to DescribeImageScanFindings.                 *)
(***************************************************************************)
EmptyCounts == [l \in {} |-> 0]

CountMaps == { EmptyCounts,
               "LOW" :> 2,
               "HIGH" :> 1,
               "HIGH" :> 10,
               ("CRITICAL" :> 1) @@ ("LOW" :> 1) }

Digest(repo) == <<"sha256:", repo>>

\* The zero value of ecr.DescribeImageScanFindingsOutput.
ZeroOutput == [RepositoryName |-> Nil, ImageId |-> Nil, ImageScanFindings |-> Nil]

Output(repo, isf) ==
    [RepositoryName |-> Ptr(repo),
     ImageId |-> Ptr([ImageDigest |-> Ptr(Digest(repo)), ImageTag |-> Ptr("latest")]),
     ImageScanFindings |-> isf]

ScanFindings == {Nil} \cup {Ptr([FindingSeverityCounts |-> c]) : c \in CountMaps}

\* A successful lookup answers for the repository asked; the image may not
\* have been scanned (no findings, or no counts).
SuccessOutputs(repo) == {Output(repo, isf) : isf \in ScanFindings}

\* A failed lookup returns the output value the SDK allocated for the
\* request (never nil): untouched, or filled in when the failure was
\* detected after the response had been unmarshalled.
ErrorOutputs(repo) == {ZeroOutput, Output(repo, Ptr([FindingSeverityCounts |-> "HIGH" :> 1]))}

(***************************************************************************)
(* Small helpers on sequences.                                             *)
(***************************************************************************)
Min(a, b) == IF a < b THEN a ELSE b

Range(s) == {s[k] : k \in 1..Len(s)}

\* Sequences without repetition over S, of length at most n.
Lists(S, n) == UNION {{s \in [1..m -> S] : \A a, b \in 1..m : s[a] = s[b] => a = b} : m \in 0..n}

(***************************************************************************)
(* Messages and values built by the handler.                               *)
(***************************************************************************)
\* handler.go:79
Link(name, digest, reg) ==
    <<"https://console.aws.amazon.com/ecr/repositories/", name, "/image/">>
        \o digest \o <<"/scan-results?region=", reg>>

\* handler.go:75-81
Repository(finding, reg) ==
    [Name |-> Deref(finding.RepositoryName),
     Severity |-> [Count |-> Deref(finding.ImageScanFindings).FindingSeverityCounts,
                   Link |-> Link(Deref(finding.RepositoryName),
                                 Deref(Deref(finding.ImageId).ImageDigest), reg)]]

\* HasCounts without the test on the number of counts.
HasCounts_NilOnly(finding) == finding.ImageScanFindings # Nil

\* handler.go:74
HasCounts(finding) ==
    /\ finding.ImageScanFindings # Nil
    /\ DOMAIN Deref(finding.ImageScanFindings).FindingSeverityCounts # {}

\* Passes with the comparison the wrong way round.
Passes_Flipped(r, minSev) == CalculateScore(r.Severity.Count) <= SeverityTable(minSev)

\* Passes with a strict comparison.
Passes_Strict(r, minSev) == CalculateScore(r.Severity.Count) > SeverityTable(minSev)

\* Passes with the default minimum severity for a name that is not a level.
Passes_DefaultHigh(r, minSev) ==
    CalculateScore(r.Severity.Count) >=
        (IF minSev \in Levels THEN SeverityTable(minSev) ELSE SeverityTable("HIGH"))

\* handler.go:82
Passes(r, minSev) == CalculateScore(r.Severity.Count) >= SeverityTable(minSev)

\* Filter with the repositories ranked by descending score.
RECURSIVE InsertByScore(_, _)
InsertByScore(r, rs) ==
    IF rs = <<>> THEN <<r>>
    ELSE IF CalculateScore(r.Severity.Count) >= CalculateScore(Head(rs).Severity.Count)
         THEN <<r>> \o rs
         ELSE <<Head(rs)>> \o InsertByScore(r, Tail(rs))

RECURSIVE Filter_Ranked(_, _, _)
Filter_Ranked(fs, minSev, reg) ==
    IF fs = <<>> THEN <<>>
    ELSE LET rest == Filter_Ranked(Tail(fs), minSev, reg)
         IN  IF HasCounts(Head(fs)) /\ Passes(Repository(Head(fs), reg), minSev)
             THEN InsertByScore(Repository(Head(fs), reg), rest)
             ELSE rest

\* handler.go:71-86, the loop over findings
RECURSIVE Filter(_, _, _)
Filter(fs, minSev, reg) ==
    IF fs = <<>> THEN <<>>
    ELSE LET rest == Filter(Tail(fs), minSev, reg)
         IN  IF HasCounts(Head(fs)) /\ Passes(Repository(Head(fs), reg), minSev)
             THEN <<Repository(Head(fs), reg)>> \o rest
             ELSE rest

\* handler.go:88
HeaderMsg(date) == <<"*Scan results on ", date, "*">>

\* handler.go:105
ErrorMsg == <<":x: *Failed get scan results from the following repos:* :x:">>

\* handler.go:111-114
RECURSIVE FailedRepos(_)
FailedRepos(scanErrors) ==
    IF scanErrors = <<>> THEN <<>>
    ELSE <<Head(scanErrors).RepositoryName, NL>> \o FailedRepos(Tail(scanErrors))

\* internal.SlackService.BuildMessageBlock: one structured unit per repository
BuildMessageBlock(r) == <<r>>

\* errorResponse without the message of the error.
errorResponse_NoBody(err) == [StatusCode |-> StatusError, Body |-> ""]

\* handler.go:124-126
errorResponse(err) == [StatusCode |-> StatusError, Body |-> err]

OKResponse == [StatusCode |-> StatusOK, Body |-> ""]

NoResponse == [StatusCode |-> 0, Body |-> ""]

Call(op, arg, out, err) == [op |-> op, arg |-> arg, out |-> out, err |-> err]

(***************************************************************************)
(* The invocation.                                                         *)
(***************************************************************************)
TypeOK ==
    /\ minimumSeverity \in SeverityNames
    /\ region \in Regions
    /\ sess \in {Nil} \cup {Ptr([Region |-> r]) : r \in Regions}
    /\ pc \in {"HANDLER", "START", "LISTED", "COLLECTED", "FILTERED", "HEADER_SENT",
               "ERROR_HEADER_SENT", "ERROR_DIGEST_SENT", "DONE", "FAILED"}
    /\ list \in Lists(RepoNames, MaxRepos)
    /\ i \in 1..(MaxRepos + 1)
    /\ j \in 1..(MaxRepos + 1)
    /\ Len(findings) <= MaxRepos
    /\ Len(failed) <= MaxRepos
    /\ Len(filtered) <= MaxRepos
    /\ response.StatusCode \in {0, StatusOK, StatusError}

\* Handler is entered (handler.go:136) in an environment that fixes
\* AWS_REGION and MINIMUM_SEVERITY; the latter defaults to HIGH and is not
\* validated (145-148).  No session exists yet.
Init ==
    /\ sess = Nil
    /\ minimumSeverity \in SeverityNames
    /\ region \in Regions
    /\ pc = "HANDLER"
    /\ list = <<>>
    /\ i = 1
    /\ findings = <<>>
    /\ failed = <<>>
    /\ filtered = <<>>
    /\ j = 1
    /\ calls = <<>>
    /\ response = NoResponse

\* handler.go:138-170: Handler creates the session and returns
\* errorResponse(err) when that fails; otherwise it builds the app and
\* enters Handle.
NewSession ==
    /\ pc = "HANDLER"
    /\ \/ \E err \in SessionErrors :
            /\ response' = errorResponse(err)
            /\ pc' = "FAILED"
            /\ sess' = sess
       \/ /\ sess' = Ptr([Region |-> region])
          /\ pc' = "START"
          /\ response' = response
    /\ UNCHANGED <<minimumSeverity, region, list, i, findings, failed, filtered,
                   j, calls>>

\* ListRepositories with the listing error dropped: Handle goes on with an
\* empty list.
ListRepositories_IgnoreError ==
    /\ pc = "START"
    /\ \/ \E err \in ListErrors :
            /\ calls' = Append(calls, Call("ListRepositories", <<MaxResults>>, <<>>, err))
            /\ list' = <<>>
       \/ \E l \in Lists(RepoNames, Min(MaxRepos, MaxResults)) :
            /\ calls' = Append(calls, Call("ListRepositories", <<MaxResults>>, l, NoErr))
            /\ list' = l
    /\ pc' = "LISTED"
    /\ UNCHANGED <<sess, minimumSeverity, region, i, findings, failed, filtered, j, response>>

\* handler.go:64-67 and ListRepositories (25-36)
ListRepositories ==
    /\ pc = "START"
    /\ \/ \E err \in ListErrors :
            /\ calls' = Append(calls, Call("ListRepositories", <<MaxResults>>, <<>>, err))
            /\ response' = errorResponse(err)
            /\ pc' = "FAILED"
            /\ list' = list
       \/ \E l \in Lists(RepoNames, Min(MaxRepos, MaxResults)) :
            /\ calls' = Append(calls, Call("ListRepositories", <<MaxResults>>, l, NoErr))
            /\ list' = l
            /\ pc' = "LISTED"
            /\ response' = response
    /\ UNCHANGED <<sess, minimumSeverity, region, i, findings, failed, filtered, j>>

\* DescribeImageScanFindings with a failed lookup ending the invocation.
DescribeImageScanFindings_Abort ==
    /\ pc = "LISTED"
    /\ i <= Len(list)
    /\ LET repo == list[i] IN
       \/ \E out \in SuccessOutputs(repo) :
            /\ calls' = Append(calls, Call("DescribeImageScanFindings", <<repo>>, <<out>>, NoErr))
            /\ findings' = Append(findings, out)
            /\ UNCHANGED <<failed, pc, response>>
       \/ \E err \in LookupErrors, out \in ErrorOutputs(repo) :
            /\ calls' = Append(calls, Call("DescribeImageScanFindings", <<repo>>, <<out>>, err))
            /\ failed' = Append(failed, [RepositoryName |-> repo])
            /\ response' = errorResponse(err)
            /\ pc' = "FAILED"
            /\ findings' = findings
    /\ i' = i + 1
    /\ UNCHANGED <<sess, minimumSeverity, region, list, filtered, j>>

\* handler.go:42-59, one iteration of the loop of GetFindings
DescribeImageScanFindings ==
    /\ pc = "LISTED"
    /\ i <= Len(list)
    /\ LET repo == list[i] IN
       \/ \E out \in SuccessOutputs(repo) :
            /\ calls' = Append(calls, Call("DescribeImageScanFindings", <<repo>>, <<out>>, NoErr))
            /\ failed' = failed
            /\ findings' = Append(findings, out)
       \/ \E err \in LookupErrors, out \in ErrorOutputs(repo) :
            /\ calls' = Append(calls, Call("DescribeImageScanFindings", <<repo>>, <<out>>, err))
            /\ failed' = Append(failed, [RepositoryName |-> repo])
            /\ findings' = Append(findings, out)
    /\ i' = i + 1
    /\ UNCHANGED <<sess, minimumSeverity, region, pc, list, filtered, j, response>>

\* handler.go:60, GetFindings returns to Handle (line 69)
GetFindingsReturn ==
    /\ pc = "LISTED"
    /\ i > Len(list)
    /\ pc' = "COLLECTED"
    /\ UNCHANGED <<sess, minimumSeverity, region, list, i, findings, failed, filtered,
                   j, calls, response>>

\* FilterFindings going back to the collector instead of on to the header.
FilterFindings_Again ==
    /\ pc = "COLLECTED"
    /\ filtered' = Filter(findings, minimumSeverity, region)
    /\ pc' = "LISTED"
    /\ UNCHANGED <<sess, minimumSeverity, region, list, i, findings, failed, j, calls,
                   response>>

\* handler.go:71-86
FilterFindings ==
    /\ pc = "COLLECTED"
    /\ filtered' = Filter(findings, minimumSeverity, region)
    /\ pc' = "FILTERED"
    /\ UNCHANGED <<sess, minimumSeverity, region, list, i, findings, failed, j, calls,
                   response>>

\* PostHeader with the error of PostStandaloneMessage ignored.
PostHeader_IgnoreError ==
    /\ pc = "FILTERED"
    /\ \E date \in Dates, err \in SlackErrors \cup {NoErr} :
         calls' = Append(calls, Call("PostStandaloneMessage", HeaderMsg(date), <<>>, err))
    /\ pc' = "HEADER_SENT"
    /\ UNCHANGED <<sess, minimumSeverity, region, list, i, findings, failed, filtered,
                   j, response>>

\* handler.go:88-92
PostHeader ==
    /\ pc = "FILTERED"
    /\ \E date \in Dates :
         \/ \E err \in SlackErrors :
              /\ calls' = Append(calls, Call("PostStandaloneMessage", HeaderMsg(date), <<>>, err))
              /\ response' = errorResponse(err)
              /\ pc' = "FAILED"
         \/ /\ calls' = Append(calls, Call("PostStandaloneMessage", HeaderMsg(date), <<>>, NoErr))
            /\ response' = response
            /\ pc' = "HEADER_SENT"
    /\ UNCHANGED <<sess, minimumSeverity, region, list, i, findings, failed, filtered, j>>

\* PostBlock with one more attempt after a failed PostMessage.
PostBlock_RetryOnce ==
    /\ pc = "HEADER_SENT"
    /\ j <= Len(filtered)
    /\ LET blockParts == BuildMessageBlock(filtered[j])
           retried == calls[Len(calls)].op = "PostMessage" /\ calls[Len(calls)].err # NoErr
       IN
       \/ \E err \in SlackErrors :
            /\ calls' = Append(calls, Call("PostMessage", blockParts, <<>>, err))
            /\ IF retried
               THEN response' = errorResponse(err) /\ pc' = "FAILED"
               ELSE response' = response /\ pc' = pc
            /\ j' = j
       \/ /\ calls' = Append(calls, Call("PostMessage", blockParts, <<>>, NoErr))
          /\ response' = response
          /\ pc' = pc
          /\ j' = j + 1
    /\ UNCHANGED <<sess, minimumSeverity, region, list, i, findings, failed, filtered>>

\* PostBlock with the error of PostMessage ignored: the loop goes on.
PostBlock_Continue ==
    /\ pc = "HEADER_SENT"
    /\ j <= Len(filtered)
    /\ LET blockParts == BuildMessageBlock(filtered[j]) IN
       \E err \in SlackErrors \cup {NoErr} :
            calls' = Append(calls, Call("PostMessage", blockParts, <<>>, err))
    /\ j' = j + 1
    /\ UNCHANGED <<sess, minimumSeverity, region, pc, list, i, findings, failed,
                   filtered, response>>

\* handler.go:94-102, one iteration of the loop over filtered
PostBlock ==
    /\ pc = "HEADER_SENT"
    /\ j <= Len(filtered)
    /\ LET blockParts == BuildMessageBlock(filtered[j]) IN
       \/ \E err \in SlackErrors :
            /\ calls' = Append(calls, Call("PostMessage", blockParts, <<>>, err))
            /\ response' = errorResponse(err)
            /\ pc' = "FAILED"
            /\ j' = j
       \/ /\ calls' = Append(calls, Call("PostMessage", blockParts, <<>>, NoErr))
          /\ response' = response
          /\ pc' = pc
          /\ j' = j + 1
    /\ UNCHANGED <<sess, minimumSeverity, region, list, i, findings, failed, filtered>>

\* PostErrorHeader without waiting for the end of the loop over filtered.
PostErrorHeader_Early ==
    /\ pc = "HEADER_SENT"
    /\ Len(failed) # 0
    /\ \/ \E err \in SlackErrors :
            /\ calls' = Append(calls, Call("PostStandaloneMessage", ErrorMsg, <<>>, err))
            /\ response' = errorResponse(err)
            /\ pc' = "FAILED"
       \/ /\ calls' = Append(calls, Call("PostStandaloneMessage", ErrorMsg, <<>>, NoErr))
          /\ response' = response
          /\ pc' = "ERROR_HEADER_SENT"
    /\ UNCHANGED <<sess, minimumSeverity, region, list, i, findings, failed, filtered, j>>

\* PostErrorHeader without the test on the length of scanErrors.
PostErrorHeader_Always ==
    /\ pc = "HEADER_SENT"
    /\ j > Len(filtered)
    /\ \/ \E err \in SlackErrors :
            /\ calls' = Append(calls, Call("PostStandaloneMessage", ErrorMsg, <<>>, err))
            /\ response' = errorResponse(err)
            /\ pc' = "FAILED"
       \/ /\ calls' = Append(calls, Call("PostStandaloneMessage", ErrorMsg, <<>>, NoErr))
          /\ response' = response
          /\ pc' = "ERROR_HEADER_SENT"
    /\ UNCHANGED <<sess, minimumSeverity, region, list, i, findings, failed, filtered, j>>

\* handler.go:104-109
PostErrorHeader ==
    /\ pc = "HEADER_SENT"
    /\ j > Len(filtered)
    /\ Len(failed) # 0
    /\ \/ \E err \in SlackErrors :
            /\ calls' = Append(calls, Call("PostStandaloneMessage", ErrorMsg, <<>>, err))
            /\ response' = errorResponse(err)
            /\ pc' = "FAILED"
       \/ /\ calls' = Append(calls, Call("PostStandaloneMessage", ErrorMsg, <<>>, NoErr))
          /\ response' = response
          /\ pc' = "ERROR_HEADER_SENT"
    /\ UNCHANGED <<sess, minimumSeverity, region, list, i, findings, failed, filtered, j>>

\* handler.go:111-118
PostErrorBody ==
    /\ pc = "ERROR_HEADER_SENT"
    /\ LET failedRepos == FailedRepos(failed) IN
       \/ \E err \in SlackErrors :
            /\ calls' = Append(calls, Call("PostStandaloneMessage", failedRepos, <<>>, err))
            /\ response' = errorResponse(err)
            /\ pc' = "FAILED"
       \/ /\ calls' = Append(calls, Call("PostStandaloneMessage", failedRepos, <<>>, NoErr))
          /\ response' = response
          /\ pc' = "ERROR_DIGEST_SENT"
    /\ UNCHANGED <<sess, minimumSeverity, region, list, i, findings, failed, filtered, j>>

\* ReturnOK reporting a failure when a lookup had failed.
ReturnOK_FailOnScanErrors ==
    /\ \/ pc = "ERROR_DIGEST_SENT"
       \/ pc = "HEADER_SENT" /\ j > Len(filtered) /\ Len(failed) = 0
    /\ IF Len(failed) = 0
       THEN response' = OKResponse /\ pc' = "DONE"
       ELSE response' = errorResponse("scan errors") /\ pc' = "FAILED"
    /\ UNCHANGED <<sess, minimumSeverity, region, list, i, findings, failed, filtered,
                   j, calls>>

\* handler.go:121
ReturnOK ==
    /\ \/ pc = "ERROR_DIGEST_SENT"
       \/ pc = "HEADER_SENT" /\ j > Len(filtered) /\ Len(failed) = 0
    /\ response' = OKResponse
    /\ pc' = "DONE"
    /\ UNCHANGED <<sess, minimumSeverity, region, list, i, findings, failed, filtered,
                   j, calls>>

Next ==
    \/ NewSession
    \/ ListRepositories
    \/ DescribeImageScanFindings
    \/ GetFindingsReturn
    \/ FilterFindings
    \/ PostHeader
    \/ PostBlock
    \/ PostErrorHeader
    \/ PostErrorBody
    \/ ReturnOK

Spec == Init /\ [][Next]_vars

\* Handler runs to completion: every collaborator call returns, so a step
\* that is possible is eventually taken.
FairSpec == Spec /\ WF_vars(Next)

(***************************************************************************)
(* Reading the log of collaborator calls.                                  *)
(***************************************************************************)
IsList(c) == c.op = "ListRepositories"

IsLookup(c) == c.op = "DescribeImageScanFindings"

IsPost(c) == c.op \in {"PostStandaloneMessage", "PostMessage"}

IsBlock(c) == c.op = "PostMessage"

IsHeader(c) == c.op = "PostStandaloneMessage" /\ c.arg \in {HeaderMsg(d) : d \in Dates}

IsDigestHeader(c) == c.op = "PostStandaloneMessage" /\ c.arg = ErrorMsg

IsDigestBody(c) == c.op = "PostStandaloneMessage" /\ ~IsHeader(c) /\ ~IsDigestHeader(c)

IsDigest(c) == IsDigestHeader(c) \/ IsDigestBody(c)

Failed(c) == c.err # NoErr

Posts == SelectSeq(calls, IsPost)

Lookups == SelectSeq(calls, IsLookup)

IsFailedLookup(c) == IsLookup(c) /\ Failed(c)

IsGoodLookup(c) == IsLookup(c) /\ ~Failed(c)

IsFatal(c) == (IsList(c) \/ IsPost(c)) /\ Failed(c)

\* Names of the repositories whose lookup failed, in the order of the lookups.
FailedLookupNames ==
    LET fl == SelectSeq(calls, IsFailedLookup)
    IN  [k \in 1..Len(fl) |-> fl[k].arg[1]]

\* Results of the lookups that succeeded, in the order of the lookups.
GoodLookupOutputs ==
    LET gl == SelectSeq(calls, IsGoodLookup)
    IN  [k \in 1..Len(gl) |-> gl[k].out[1]]

BlockNames ==
    LET bs == SelectSeq(calls, IsBlock)
    IN  [k \in 1..Len(bs) |-> bs[k].arg[1].Name]

NamesOf(rs) == [k \in 1..Len(rs) |-> rs[k].Name]

\* Handler has created the session and called Handle.
HandleEntered == sess # Nil

ListingSucceeded == Len(calls) > 0 /\ IsList(calls[1]) /\ ~Failed(calls[1])

Collected == ListingSucceeded /\ pc \notin {"START", "LISTED"}

Filtered == Collected /\ pc # "COLLECTED"

RECURSIVE IsSubseq(_, _)
IsSubseq(s, t) ==
    IF s = <<>> THEN TRUE
    ELSE IF t = <<>> THEN FALSE
    ELSE IF Head(s) = Head(t) THEN IsSubseq(Tail(s), Tail(t))
    ELSE IsSubseq(s, Tail(t))

\* The lines of a text, each a sequence of tokens; a line ends at NL.
RECURSIVE LinesOf(_)
LinesOf(msg) ==
    IF msg = <<>> THEN <<>>
    ELSE LET ends == {k \in 1..Len(msg) : msg[k] = NL}
             e == IF ends = {} THEN Len(msg) + 1
                  ELSE CHOOSE k \in ends : \A m \in ends : k <= m
         IN  <<SubSeq(msg, 1, e - 1)>> \o LinesOf(SubSeq(msg, e + 1, Len(msg)))

(***************************************************************************)
(* Properties.                                                             *)
(***************************************************************************)

\* C1: when the dispatch of a repository block fails, no later block is
\* dispatched and the invocation has FAILED with status 500 and the error of
\* that dispatch as its body.
C1_BlockFailureAborts ==
    \A k \in 1..Len(calls) :
        (IsBlock(calls[k]) /\ Failed(calls[k])) =>
            /\ \A m \in (k + 1)..Len(calls) : ~IsBlock(calls[m])
            /\ pc = "FAILED"
            /\ response = [StatusCode |-> StatusError, Body |-> calls[k].err]

\* A block dispatch failed while a further filtered repository was waiting.
C1_Witness ==
    /\ pc = "FAILED"
    /\ Len(calls) > 0
    /\ IsBlock(calls[Len(calls)])
    /\ Failed(calls[Len(calls)])
    /\ Len(filtered) > Len(BlockNames)

\* C2: once the collector has run, the findings list holds exactly the
\* results of the lookups that succeeded and the error list exactly the
\* repositories whose lookup failed, so every listed repository is in exactly
\* one of the two lists.
C2_ExactlyOneList ==
    Collected =>
        /\ findings = GoodLookupOutputs
        /\ [k \in 1..Len(failed) |-> failed[k].RepositoryName] = FailedLookupNames
        /\ Len(findings) + Len(failed) = Len(list)

\* C3: a failed lookup never ends the collection: from LISTED the invocation
\* only continues the loop or returns to Handle with no result set, every
\* listed repository has been looked up once the collector has returned, each
\* failed lookup has its ScanError, and COLLECTED is reached from LISTED.
C3_CollectorNeverAborts ==
    /\ [][pc = "LISTED" =>
            /\ pc' \in {"LISTED", "COLLECTED"}
            /\ response' = response]_vars
    /\ [](Collected =>
            /\ [k \in 1..Len(Lookups) |-> Lookups[k].arg[1]] = list
            /\ \A n \in Range(FailedLookupNames) :
                   \E k \in 1..Len(failed) : failed[k].RepositoryName = n)
    /\ (pc = "LISTED") ~> (pc = "COLLECTED")

\* The collector returned although the first of two lookups had failed.
C3_Witness ==
    /\ pc = "COLLECTED"
    /\ Len(Lookups) = 2
    /\ Failed(Lookups[1])

\* C4: when the listing fails it is the only collaborator call of the
\* invocation (no lookup, no notification), and the invocation has FAILED
\* with status 500 and the listing error as its body.
C4_ListingFailureAborts ==
    \A k \in 1..Len(calls) :
        (IsList(calls[k]) /\ Failed(calls[k])) =>
            /\ Len(calls) = 1
            /\ pc = "FAILED"
            /\ response = [StatusCode |-> StatusError, Body |-> calls[k].err]

\* The listing failed.
C4_Witness ==
    /\ pc = "FAILED"
    /\ Len(calls) = 1
    /\ IsList(calls[1])
    /\ Failed(calls[1])

\* C5: a finding that has severity counts is left out of the filtered list
\* exactly when its score is strictly below the score of the configured
\* minimum severity.
C5_ExcludedIffBelowThreshold ==
    Filtered =>
        \A k \in 1..Len(findings) :
            HasCounts(findings[k]) =>
                LET name == Deref(findings[k].RepositoryName)
                    score == CalculateScore(Deref(findings[k].ImageScanFindings).FindingSeverityCounts)
                IN  (name \notin Range(NamesOf(filtered))) <=> (score < SeverityTable(minimumSeverity))

\* A finding whose score equals the score of the minimum severity was kept,
\* and another finding with counts was dropped.
C5_Witness ==
    /\ Filtered
    /\ SeverityTable(minimumSeverity) > 0
    /\ \E k \in 1..Len(filtered) :
           CalculateScore(filtered[k].Severity.Count) = SeverityTable(minimumSeverity)
    /\ \E k \in 1..Len(findings) :
           /\ HasCounts(findings[k])
           /\ Deref(findings[k].RepositoryName) \notin Range(NamesOf(filtered))

\* C6: the dispatches of an invocation are the header first (and only
\* there), then the blocks of the filtered repositories one by one, then the
\* digest messages; every dispatch before the last one succeeded, and an
\* invocation that is DONE has sent exactly one block per filtered repository.
C6_DispatchOrder ==
    LET n == Len(Posts)
        nb == Len(filtered)
    IN  /\ n > 0 => Filtered
        /\ \A k \in 1..n :
              /\ IsHeader(Posts[k]) <=> k = 1
              /\ IsBlock(Posts[k]) =>
                    /\ k \in 2..(nb + 1)
                    /\ Posts[k].arg[1] = filtered[k - 1]
              /\ IsDigest(Posts[k]) => k > nb + 1
              /\ k < n => ~Failed(Posts[k])
        /\ pc = "DONE" =>
              /\ n >= 1
              /\ ~Failed(Posts[n])
              /\ BlockNames = NamesOf(filtered)

\* A finished invocation that sent the header, a block and the digest.
C6_Witness ==
    /\ pc = "DONE"
    /\ Len(BlockNames) >= 1
    /\ Len(Posts) = Len(BlockNames) + 3
    /\ Range(BlockNames) \cap Range(FailedLookupNames) = {}

\* C7: the blocks are dispatched in listing order (the findings list and the
\* filtered list keep it), and the digest body names the repositories whose
\* lookup failed in the order of the failures, which is listing order.
C7_OrderPreserved ==
    /\ IsSubseq(BlockNames, list)
    /\ IsSubseq(NamesOf(filtered), list)
    /\ IsSubseq([k \in 1..Len(failed) |-> failed[k].RepositoryName], list)
    /\ IsSubseq(FailedLookupNames, list)
    /\ LET named == SelectSeq(findings, LAMBDA f : f.RepositoryName # Nil)
       IN  IsSubseq([k \in 1..Len(named) |-> Deref(named[k].RepositoryName)], list)
    /\ \A k \in 1..Len(Posts) :
          IsDigestBody(Posts[k]) =>
              LinesOf(Posts[k].arg) = [m \in 1..Len(FailedLookupNames) |-> <<FailedLookupNames[m]>>]

\* Two blocks were dispatched, the repository with the lower score first.
C7_Witness ==
    /\ Len(BlockNames) = 2
    /\ CalculateScore(filtered[1].Severity.Count) < CalculateScore(filtered[2].Severity.Count)

\* C8: digest messages are dispatched only when a lookup failed; the digest
\* body is the last dispatch, directly after the successfully sent fixed
\* digest header, and its lines are the names of the failed repositories in
\* the order recorded; a finished invocation has sent the digest exactly when
\* a lookup failed.
C8_DigestIffScanErrors ==
    LET n == Len(Posts)
        sentDigest == /\ n >= 2
                      /\ IsDigestHeader(Posts[n - 1])
                      /\ IsDigestBody(Posts[n])
    IN  /\ \A k \in 1..n :
              /\ IsDigest(Posts[k]) => FailedLookupNames # <<>>
              /\ IsDigestHeader(Posts[k]) => \A m \in 1..(k - 1) : ~IsDigest(Posts[m])
              /\ IsDigestBody(Posts[k]) =>
                    /\ k = n
                    /\ k > 1
                    /\ IsDigestHeader(Posts[k - 1])
                    /\ ~Failed(Posts[k - 1])
                    /\ LinesOf(Posts[k].arg) =
                          [m \in 1..Len(FailedLookupNames) |-> <<FailedLookupNames[m]>>]
        /\ pc = "DONE" => (sentDigest <=> FailedLookupNames # <<>>)

\* A finished invocation whose digest names two repositories.
C8_Witness ==
    /\ pc = "DONE"
    /\ Len(FailedLookupNames) = 2
    /\ IsDigestBody(Posts[Len(Posts)])

\* C9: once the listing has succeeded, the invocation fails only on a failed
\* dispatch, never on failed lookups alone; it always comes to an end, and
\* ends DONE with status 200 when the listing and every dispatch succeeded.
C9_ScanFailureNotFatal ==
    /\ []((pc = "FAILED" /\ ListingSucceeded) =>
            \E k \in 1..Len(calls) : IsPost(calls[k]) /\ Failed(calls[k]))
    /\ [](pc = "DONE" => response.StatusCode = StatusOK)
    /\ <>(pc \in {"DONE", "FAILED"})

\* A finished invocation in which every one of two lookups failed.
C9_Witness ==
    /\ pc = "DONE"
    /\ response.StatusCode = StatusOK
    /\ Len(list) = 2
    /\ Len(FailedLookupNames) = 2

\* C10: the result of Handle is status 200 with an empty body when no
\* listing or dispatch failed, and status 500 with the message of the first
\* such failure as its body otherwise; there is no result before the end.
\* (When Handler cannot create the session, Handle is not called: the result
\* is status 500 with the message of that error, and no call was made.)
C10_ResultIsFirstFatalError ==
    LET fatal == SelectSeq(calls, IsFatal)
    IN  /\ pc = "DONE" =>
              /\ HandleEntered
              /\ fatal = <<>>
              /\ response = [StatusCode |-> StatusOK, Body |-> ""]
        /\ (pc = "FAILED" /\ HandleEntered) =>
              /\ fatal # <<>>
              /\ response = [StatusCode |-> StatusError, Body |-> fatal[1].err]
        /\ (pc = "FAILED" /\ ~HandleEntered) =>
              /\ calls = <<>>
              /\ response.StatusCode = StatusError
              /\ response.Body \in SessionErrors
        /\ pc \notin {"DONE", "FAILED"} =>
              /\ fatal = <<>>
              /\ response = NoResponse

\* An invocation that failed on a dispatch after earlier dispatches succeeded.
C10_Witness ==
    /\ pc = "FAILED"
    /\ Len(Posts) >= 2
    /\ response.StatusCode = StatusError
    /\ response.Body = Posts[Len(Posts)].err
    /\ response.Body # ""

\* C11: a repository whose lookup succeeded without severity counts (no
\* findings, or an empty count mapping) is not in the filtered list, gets no
\* block, is not recorded as a ScanError and is not named in the digest.
C11_UnscannedIsSkipped ==
    \A k \in 1..Len(calls) :
        (/\ IsGoodLookup(calls[k])
         /\ \/ calls[k].out[1].ImageScanFindings = Nil
            \/ Deref(calls[k].out[1].ImageScanFindings).FindingSeverityCounts = EmptyCounts) =>
            LET name == calls[k].arg[1]
            IN  /\ name \notin Range(NamesOf(filtered))
                /\ name \notin Range(BlockNames)
                /\ \A m \in 1..Len(failed) : failed[m].RepositoryName # name
                /\ \A m \in 1..Len(Posts) :
                      IsDigestBody(Posts[m]) => <<name>> \notin Range(LinesOf(Posts[m].arg))

\* A finished invocation with no minimum score to reach, in which a lookup
\* returned an empty count mapping and the digest was sent for another
\* repository.
C11_Witness ==
    /\ pc = "DONE"
    /\ minimumSeverity = "NONE"
    /\ FailedLookupNames # <<>>
    /\ \E k \in 1..Len(calls) :
          /\ IsGoodLookup(calls[k])
          /\ calls[k].out[1].ImageScanFindings # Nil
          /\ Deref(calls[k].out[1].ImageScanFindings).FindingSeverityCounts = EmptyCounts

C14_DispatchFailureAborts ==
    \A k \in 1..Len(calls) :
        (IsPost(calls[k]) /\ Failed(calls[k])) =>
            /\ k = Len(calls)
            /\ pc = "FAILED"
            /\ response = [StatusCode |-> StatusError, Body |-> calls[k].err]

\* The header dispatch failed while a block and the digest were still to be
\* sent.
C14_Witness ==
    /\ pc = "FAILED"
    /\ Len(Posts) = 1
    /\ IsHeader(Posts[1])
    /\ Failed(Posts[1])
    /\ Len(filtered) >= 1
    /\ Len(failed) >= 1

\* C15: Handle calls the listing once, first; the lookups issued are the listed
\* repositories in order, each once; no message is dispatched twice.
C15_NoRetries ==
    /\ \A k \in 1..Len(calls) : IsList(calls[k]) <=> k = 1
    /\ (HandleEntered /\ pc # "START") => Len(calls) >= 1
    /\ ~HandleEntered => calls = <<>>
    /\ LET looked == [k \in 1..Len(Lookups) |-> Lookups[k].arg[1]]
       IN  /\ Len(looked) <= Len(list)
           /\ looked = SubSeq(list, 1, Len(looked))
           /\ Collected => looked = list
    /\ \A a, b \in 1..Len(Posts) :
          (Posts[a].op = Posts[b].op /\ Posts[a].arg = Posts[b].arg) => a = b

\* A lookup and a block dispatch have failed in an invocation that listed two
\* repositories.
C15_Witness ==
    /\ Len(list) = 2
    /\ Len(Lookups) = 2
    /\ FailedLookupNames # <<>>
    /\ Len(Posts) >= 2
    /\ IsBlock(Posts[Len(Posts)])
    /\ Failed(Posts[Len(Posts)])

\* C16: every invocation comes to DONE or FAILED and stays there, and makes
\* no collaborator call and changes no result afterwards.
C16_Terminates ==
    /\ <>[](pc \in {"DONE", "FAILED"})
    /\ [][(pc = "DONE" \/ pc = "FAILED") =>
            (pc' = pc /\ calls' = calls /\ response' = response)]_vars
    /\ [](pc \in {"DONE", "FAILED"} => ~ENABLED Next)

\* An invocation ended DONE after two lookups, two blocks and the header.
C16_Witness ==
    /\ pc = "DONE"
    /\ Len(Lookups) = 2
    /\ Len(BlockNames) = 2

\* C17: a repository whose lookup failed is not in the filtered list, and no
\* repository is both the subject of a dispatched block and named in the
\* digest.
C17_FailedNeverNotified ==
    /\ Range(NamesOf(filtered)) \cap Range(FailedLookupNames) = {}
    /\ \A m \in 1..Len(Posts) :
          IsDigestBody(Posts[m]) =>
              \A n \in Range(BlockNames) : <<n>> \notin Range(LinesOf(Posts[m].arg))

\* C18: when the configured minimum severity is not a severity level, every
\* finding that has severity counts is in the filtered list, and a finished
\* invocation has dispatched a block for it.
C18_UnknownThresholdKeepsAll ==
    (minimumSeverity \notin Levels /\ Filtered) =>
        \A k \in 1..Len(findings) :
            HasCounts(findings[k]) =>
                /\ SeverityTable(minimumSeverity) = 0
                /\ Deref(findings[k].RepositoryName) \in Range(NamesOf(filtered))
                /\ pc = "DONE" => Deref(findings[k].RepositoryName) \in Range(BlockNames)

\* A finished invocation configured with an unknown level that dispatched a
\* block for a repository with LOW findings only.
C18_Witness ==
    /\ pc = "DONE"
    /\ minimumSeverity \notin Levels
    /\ \E k \in 1..Len(filtered) :
          /\ DOMAIN filtered[k].Severity.Count = {"LOW"}
          /\ filtered[k].Name \in Range(BlockNames)

====
